---- MODULE Spec2Model ----
(***************************************************************************)
(* Project tracker: the SQLite store (projects, tasks, git_activity), the  *)
(* project reference resolver, the status setter, the task listing and the *)
(* post-commit hook with its commit message parser.                        *)
(*                                                                         *)
(* Text is modelled as sequences of one-character strings so that the      *)
(* regular expressions, SQL LIKE and SQLite's text ordering are computed   *)
(* character by character, as the program computes them.                   *)
(***************************************************************************)
EXTENDS Integers, Sequences, FiniteSets, TLC

VARIABLES projects, tasks, git_activity, now, last, message, updates, conn

vars == <<projects, tasks, git_activity, now, last, message, updates, conn>>
store == <<projects, tasks, git_activity>>

(***************************************************************************)
(* Bounds of the model.                                                    *)
(***************************************************************************)
MaxProjects == 2
MaxTasks == 1
MaxListTasks == 2
MaxActivity == 2
MaxClock == 1
MaxClauses == 2

(***************************************************************************)
(* Characters and text.                                                    *)
(***************************************************************************)
LowerLetters == <<"a","b","c","d","e","f","g","h","i","j","k","l","m",
                  "n","o","p","q","r","s","t","u","v","w","x","y","z">>
UpperLetters == <<"A","B","C","D","E","F","G","H","I","J","K","L","M",
                  "N","O","P","Q","R","S","T","U","V","W","X","Y","Z">>
DigitChars == <<"0","1","2","3","4","5","6","7","8","9">>

Range(s) == {s[i] : i \in 1..Len(s)}
IndexOf(s, c) == CHOOSE i \in 1..Len(s) : s[i] = c

DigitSet == Range(DigitChars)
UpperSet == Range(UpperLetters)
LowerSet == Range(LowerLetters)

IsDigit(c) == c \in DigitSet
IsSpace(c) == c = " "
IsUpper(c) == c \in UpperSet
IsLower(c) == c \in LowerSet

\* str.lower() on one character (ASCII letters)
ToLower(c) == IF IsUpper(c) THEN LowerLetters[IndexOf(UpperLetters, c)] ELSE c
\* the message matched as it was typed
LowerSkipped(s) == s

\* str.lower()
Lower(s) == [i \in 1..Len(s) |-> ToLower(s[i])]

\* U+017F, the long s: a lowercase letter that str.lower() leaves alone and
\* whose uppercase is "S"
LongS == "long-s"

\* str.swapcase() on one character
SwapCase(c) ==
  IF IsUpper(c) THEN ToLower(c)
  ELSE IF IsLower(c) THEN UpperLetters[IndexOf(LowerLetters, c)]
  ELSE IF c = LongS THEN "S"
  ELSE c

\* the byte value of a character (ASCII)
Ord(c) ==
  IF IsLower(c) THEN 96 + IndexOf(LowerLetters, c)
  ELSE IF IsUpper(c) THEN 64 + IndexOf(UpperLetters, c)
  ELSE IF IsDigit(c) THEN 47 + IndexOf(DigitChars, c)
  ELSE CASE c = " " -> 32
         [] c = "%" -> 37
         [] c = "+" -> 43
         [] c = "," -> 44
         [] c = "-" -> 45
         [] c = ":" -> 58
         [] c = "_" -> 95

\* s[i..] starts with the word w
HasPrefixAt(s, i, w) ==
  /\ i + Len(w) - 1 <= Len(s)
  /\ \A k \in 1..Len(w) : s[i + k - 1] = w[k]

\* int() of a string of decimal digits
RECURSIVE DecimalValue(_)
DecimalValue(d) ==
  IF d = <<>> THEN 0
  ELSE 10 * DecimalValue(SubSeq(d, 1, Len(d) - 1)) + (IndexOf(DigitChars, d[Len(d)]) - 1)

(***************************************************************************)
(* pt-git-hook.py: parse_commit_message                                    *)
(***************************************************************************)
PtPrefix == <<"p","t",":">>

\* The keyword alternatives of the three status patterns.  An alternative
\* "xyz?" is the stem "xy" followed by an optional "z": it matches exactly
\* where its stem matches.
CompletedAlts == { <<"c","o","m","p","l","e","t","e">>,          \* completed?
                   <<"d","o","n","e">>,                          \* done
                   <<"f","i","n","i","s","h","e">> }             \* finished?
InProgressAlts == { <<"p","r","o","g","r","e","s","s">>,         \* progress
                    <<"w","o","r","k","i","n","g">>,             \* working
                    <<"s","t","a","r","t","e">> }                \* started?
BlockedAlts == { <<"b","l","o","c","k","e">> }                   \* blocked?
NoAlts == {}

\* the dict `patterns` iterated from its last key to its first
PatternsReversed ==
  << [alts |-> NoAlts,         keyword |-> FALSE, action |-> "activity"],
     [alts |-> BlockedAlts,    keyword |-> TRUE,  action |-> "blocked"],
     [alts |-> InProgressAlts, keyword |-> TRUE,  action |-> "in_progress"],
     [alts |-> CompletedAlts,  keyword |-> TRUE,  action |-> "completed"] >>

\* the dict `patterns`, in insertion order
Patterns == << [alts |-> CompletedAlts,  keyword |-> TRUE,  action |-> "completed"],
               [alts |-> InProgressAlts, keyword |-> TRUE,  action |-> "in_progress"],
               [alts |-> BlockedAlts,    keyword |-> TRUE,  action |-> "blocked"],
               [alts |-> NoAlts,         keyword |-> FALSE, action |-> "activity"] >>

\* pt:(\d+) matches at i with the digits s[i+3..j-1]
RefAt(s, i, j) ==
  /\ HasPrefixAt(s, i, PtPrefix)
  /\ j > i + 3
  /\ j <= Len(s) + 1
  /\ \A k \in (i + 3)..(j - 1) : IsDigit(s[k])

\* pt:(\d+)\s+(alt|...) matches at i with the digits s[i+3..j-1]
KeywordAt(s, i, j, alts) ==
  /\ RefAt(s, i, j)
  /\ \E k \in (j + 1)..Len(s) :
       /\ \A x \in j..(k - 1) : IsSpace(s[x])
       /\ \E w \in alts : HasPrefixAt(s, k, w)

\* the end of group 1 of the match of pattern p at i, 0 if there is none;
\* \d+ is greedy, so without a keyword it takes the longest run of digits
MatchAt(s, i, p) ==
  IF ~HasPrefixAt(s, i, PtPrefix) THEN 0
  ELSE LET ends == IF p.keyword
                   THEN {j \in (i + 4)..(Len(s) + 1) : KeywordAt(s, i, j, p.alts)}
                   ELSE {j \in (i + 4)..(Len(s) + 1) : RefAt(s, i, j)}
       IN IF ends = {} THEN 0 ELSE CHOOSE j \in ends : \A j2 \in ends : j2 <= j

\* re.finditer(pattern, s) with every match kept (a loop without the break)
AllMatches(s, p) ==
  LET RECURSIVE From(_)
      From(i) ==
        IF i > Len(s) THEN <<>>
        ELSE (IF MatchAt(s, i, p) # 0
              THEN << <<DecimalValue(SubSeq(s, i + 3, MatchAt(s, i, p) - 1)),
                        p.action>> >>
              ELSE <<>>) \o From(i + 1)
  IN From(1)

\* re.finditer(pattern, s), first match only (the loop breaks after it)
FirstMatch(s, p) ==
  LET starts == {i \in 1..Len(s) : MatchAt(s, i, p) # 0}
  IN IF starts = {} THEN <<>>
     ELSE LET i == CHOOSE x \in starts : \A y \in starts : x <= y
          IN << <<DecimalValue(SubSeq(s, i + 3, MatchAt(s, i, p) - 1)), p.action>> >>

RECURSIVE ParseFrom(_, _)
ParseFrom(s, n) ==
  IF n > Len(Patterns) THEN <<>>
  ELSE FirstMatch(s, Patterns[n]) \o ParseFrom(s, n + 1)

parse_commit_message(m) == ParseFrom(Lower(m), 1)

(***************************************************************************)
(* Values of the store.                                                    *)
(***************************************************************************)
\* str() of a non-negative integer
RECURSIVE DecimalText(_)
DecimalText(n) ==
  IF n < 10 THEN <<DigitChars[n + 1]>>
  ELSE DecimalText(n \div 10) \o <<DigitChars[(n % 10) + 1]>>

\* the number as text, zero-padded to width w
RECURSIVE ZeroPad(_, _)
ZeroPad(t, w) == IF Len(t) >= w THEN t ELSE ZeroPad(<<"0">> \o t, w)

\* SQLite's BINARY collation on TEXT: memcmp, a proper prefix sorts first
RECURSIVE TextLess(_, _)
TextLess(a, b) ==
  IF b = <<>> THEN FALSE
  ELSE IF a = <<>> THEN TRUE
  ELSE IF a[1] # b[1] THEN Ord(a[1]) < Ord(b[1])
  ELSE TextLess(Tail(a), Tail(b))

HIGH == <<"h","i","g","h">>
MEDIUM == <<"m","e","d","i","u","m">>
LOW == <<"l","o","w">>
URGENT == <<"u","r","g","e","n","t">>

\* SQL NULL in a text column, and in a column holding a path
NULL == <<>>
NoPath == "<null>"

\* valid_statuses without the check: whatever is passed is accepted
valid_statuses_unchecked == {"pending", "in_progress", "completed", "blocked", "done"}

\* update_task_status: valid_statuses
valid_statuses == {"pending", "in_progress", "completed", "blocked"}

\* project names (add-project NAME)
NameWeb == <<"W","e","b">>
NameWebLower == <<"w","e","b">>
NameApi == <<"a","p","i">>
Names == {NameWeb, NameWebLower, NameApi}

(***************************************************************************)
(* Reference resolution: int(project_ref), else name LIKE '%ref%'.         *)
(***************************************************************************)
\* str.strip() of spaces, as int() applies it
RECURSIVE StripLeft(_)
StripLeft(s) == IF s # <<>> /\ IsSpace(s[1]) THEN StripLeft(Tail(s)) ELSE s
RECURSIVE StripRight(_)
StripRight(s) ==
  IF s # <<>> /\ IsSpace(s[Len(s)]) THEN StripRight(SubSeq(s, 1, Len(s) - 1)) ELSE s
Strip(s) == StripRight(StripLeft(s))

HasSign(s) == s # <<>> /\ s[1] \in {"+", "-"}
Unsigned(s) == IF HasSign(s) THEN Tail(s) ELSE s

\* int(s) does not raise ValueError: optional sign, then decimal digits
ParsesAsInt(s) ==
  LET d == Unsigned(Strip(s))
  IN d # <<>> /\ \A i \in 1..Len(d) : IsDigit(d[i])

\* int(s)
IntValue(s) ==
  LET t == Strip(s)
  IN IF HasSign(t) /\ t[1] = "-" THEN 0 - DecimalValue(Unsigned(t))
     ELSE DecimalValue(Unsigned(t))

\* SQLite LIKE: % is any run of characters, _ is any one character, and
\* ASCII letters match without regard to case
RECURSIVE LikeMatch(_, _)
LikeMatch(p, s) ==
  IF p = <<>> THEN s = <<>>
  ELSE IF p[1] = "%" THEN LikeMatch(Tail(p), s) \/ (s # <<>> /\ LikeMatch(p, Tail(s)))
  ELSE IF s = <<>> THEN FALSE
  ELSE IF p[1] = "_" THEN LikeMatch(Tail(p), Tail(s))
  ELSE ToLower(p[1]) = ToLower(s[1]) /\ LikeMatch(Tail(p), Tail(s))

\* the ids of the rows of SELECT ... FROM projects WHERE name LIKE '%ref%'
NameLikeRows(P, ref) ==
  {i \in 1..Len(P) : LikeMatch(<<"%">> \o ref \o <<"%">>, P[i].name)}

\* the ids of the rows of SELECT ... FROM projects WHERE id = int(ref)
IdRows(P, ref) == {i \in 1..Len(P) : i = IntValue(ref)}

\* the rows the lookup SELECT of a resolver returns
LookupRows(P, ref) == IF ParsesAsInt(ref) THEN IdRows(P, ref) ELSE NameLikeRows(P, ref)

(***************************************************************************)
(* Inputs: commit messages, references, due dates.                         *)
(***************************************************************************)
WCOMPLETED == <<"c","o","m","p","l","e","t","e","d">>
WCOMPLETE == <<"c","o","m","p","l","e","t","e">>
WDONE == <<"d","o","n","e">>
WFINISHED == <<"f","i","n","i","s","h","e","d">>
WFINISH == <<"f","i","n","i","s","h">>
WPROGRESS == <<"p","r","o","g","r","e","s","s">>
WWORKING == <<"w","o","r","k","i","n","g">>
WSTARTED == <<"s","t","a","r","t","e","d">>
WSTART == <<"s","t","a","r","t">>
WBLOCKED == <<"b","l","o","c","k","e","d">>
WBLOCK == <<"b","l","o","c","k">>
WFIX == <<"f","i","x">>
HASHA == <<"3","f","9","a","1","c","0","7","d","e">>

\* the keywords the hook documents, as they are typed in a commit message
CompletedKeywords == { WCOMPLETED, WCOMPLETE, WDONE, WFINISHED, WFINISH }
InProgressKeywords == { WPROGRESS, WWORKING, WSTARTED, WSTART }
BlockedKeywords == { WBLOCKED, WBLOCK }
\* words after a reference: a keyword, another word, or nothing
Words == CompletedKeywords \cup InProgressKeywords \cup BlockedKeywords
           \cup { WFIX, <<>> }

\* task numbers written in commit messages
MsgIds == {1, 2, 12}

RefText(n) == PtPrefix \o DecimalText(n)
Clause(n, word) == RefText(n) \o (IF word = <<>> THEN <<>> ELSE <<" ">> \o word)
Clauses == {Clause(n, word) : n \in MsgIds, word \in Words}

RECURSIVE Join(_)
Join(cs) ==
  IF cs = <<>> THEN <<>>
  ELSE IF Len(cs) = 1 THEN cs[1]
  ELSE cs[1] \o <<",", " ">> \o Join(Tail(cs))

\* commit subjects of up to MaxClauses clauses "pt:N word" joined by ", "
Messages == UNION {{Join(cs) : cs \in [1..k -> Clauses]} : k \in 0..MaxClauses}

\* a subject that matches all four patterns and one that repeats a reference
\* and its keyword three times
LongMessages ==
  { Join(<<Clause(1, WDONE), Clause(2, WWORKING), Clause(12, WBLOCKED)>>),
    Join(<<Clause(2, WDONE), Clause(2, WDONE), Clause(2, WDONE)>>) }

\* the commit subjects the hook is run on in the store specification
HookMessages == { Join(<<Clause(1, WDONE)>>),
                  Join(<<Clause(2, WBLOCKED), Clause(1, WPROGRESS)>>),
                  WFIX }

\* commit subjects as typed, with capitals: "PT:1 Done", "See pt:1" and
\* "pt:2 Blocked, pt:1 progress"
MixedCaseMessages ==
  { <<"P","T",":","1"," ","D","o","n","e">>,
    <<"S","e","e"," ","p","t",":","1">>,
    <<"p","t",":","2"," ","B","l","o","c","k","e","d">>
      \o <<",", " ">> \o Clause(1, WPROGRESS) }

\* commit subjects with two status keywords for one task, in both orders:
\* "pt:1 blocked, pt:1 done", "pt:1 done, pt:1 blocked",
\* "pt:1 working, pt:1 done" and "pt:2 blocked, pt:1 done"
OrderMessages ==
  { Join(<<Clause(1, WBLOCKED), Clause(1, WDONE)>>),
    Join(<<Clause(1, WDONE), Clause(1, WBLOCKED)>>),
    Join(<<Clause(1, WWORKING), Clause(1, WDONE)>>),
    Join(<<Clause(2, WBLOCKED), Clause(1, WDONE)>>) }

\* commit subjects to retype in another case: "pt:1 done", "see pt:1" and
\* "pt:1 (long s)tarted"
CaseMessages ==
  { Join(<<Clause(1, WDONE)>>),
    <<"s","e","e"," ">> \o RefText(1),
    PtPrefix \o <<"1"," ",LongS,"t","a","r","t","e","d">> }

\* git rev-parse HEAD
CommitHashes == { HASHA }

\* project references typed on the command line
Refs == { <<"1">>, <<"9">>, NameWebLower, <<"W","_","b">>, <<"z","z">> }

\* --due arguments: absent, a date that strptime('%Y-%m-%d') accepts, or not
DueArgs == { [kind |-> "none", y |-> 0, m |-> 0, d |-> 0],
             [kind |-> "date", y |-> 2024, m |-> 1, d |-> 1],
             [kind |-> "date", y |-> 2024, m |-> 6, d |-> 1],
             [kind |-> "invalid", y |-> 0, m |-> 0, d |-> 0] }

\* date.isoformat(), the text sqlite3 stores for a date
IsoFormat(y, m, d) ==
  ZeroPad(DecimalText(y), 4) \o <<"-">> \o ZeroPad(DecimalText(m), 2)
    \o <<"-">> \o ZeroPad(DecimalText(d), 2)

\* -p/--priority choices of the `add` command
PriorityChoices == {LOW, MEDIUM, HIGH}

\* arguments of update_task_status: the valid values and one other
StatusArgs == valid_statuses \cup {"done"}

(***************************************************************************)
(* The store and the outcome of the most recent invocation.                *)
(***************************************************************************)
\* `last` is what the most recent invocation was called with and what it
\* reported; NoCall between invocations
NoCall == [op |-> "none", ref |-> <<>>, project_id |-> 0, task_id |-> 0,
           status |-> "", result |-> "", out |-> <<>>]

Call(op, ref, pid, tid, status, result, out) ==
  [op |-> op, ref |-> ref, project_id |-> pid, task_id |-> tid,
   status |-> status, result |-> result, out |-> out]

\* the invocations that may run at the same time: each is a process with its
\* own connection to the database file
Procs == {1, 2}

\* a connection outside a transaction
NoTx == [open |-> FALSE, tasks |-> <<>>, projects |-> <<>>, git_activity |-> <<>>]

\* a process that runs no invocation: op, result and exit status are those of
\* the invocation that ended last, seen is what it read
Closed(op, result, exit, seen) ==
  [op |-> op, pc |-> "closed", task_id |-> 0, status |-> "", project_id |-> 0,
   rest |-> <<>>, msg |-> <<>>, tx |-> NoTx, started |-> 0,
   result |-> result, exit |-> exit, seen |-> seen]

NoInvocation == [p \in Procs |-> Closed("none", "", 0, {})]

Init ==
  /\ projects = <<>>
  /\ tasks = <<>>
  /\ git_activity = <<>>
  /\ now = 0
  /\ last = NoCall
  /\ message = <<>>
  /\ updates = <<>>
  /\ conn = NoInvocation

\* CURRENT_TIMESTAMP advances between invocations
Tick ==
  /\ now < MaxClock
  /\ now' = now + 1
  /\ last' = NoCall
  /\ UNCHANGED <<projects, tasks, git_activity, message, updates, conn>>

\* UPDATE projects SET updated_at = CURRENT_TIMESTAMP without the WHERE
TouchEveryProject(P, pid, t) ==
  [i \in 1..Len(P) |-> [P[i] EXCEPT !.updated_at = t]]

\* UPDATE projects SET updated_at = CURRENT_TIMESTAMP WHERE id = pid
TouchProject(P, pid, t) ==
  [i \in 1..Len(P) |-> IF i = pid THEN [P[i] EXCEPT !.updated_at = t] ELSE P[i]]

\* projects.name without the UNIQUE constraint
NameTakenNoConstraint(P, name) == FALSE

\* the UNIQUE constraint on projects.name rejects the insert
NameTaken(P, name) == \E i \in 1..Len(P) : P[i].name = name

\* ProjectTracker.get_git_info: branch and short commit of the repository at
\* path, None when a git subprocess fails (bare except)
get_git_info(git_ok) == IF git_ok THEN <<"main", SubSeq(HASHA, 1, 8)>> ELSE <<>>

\* ProjectTracker.add_project; git_ok: the git subprocesses of get_git_info
\* succeed.  The outcome holds the Git line that was logged, if any
AddProjectGit(name, path, git_ok) ==
  /\ UNCHANGED <<tasks, git_activity, now, message, updates, conn>>
  /\ IF NameTaken(projects, name)
     THEN /\ UNCHANGED projects
          /\ last' = Call("add_project", name, 0, 0, "", "DuplicateName", <<>>)
     ELSE /\ projects' = Append(projects,
               [name |-> name, path |-> path, status |-> "active",
                created_at |-> now, updated_at |-> now])
          /\ last' = Call("add_project", name, Len(projects) + 1, 0, "", "ok",
                          IF path # NoPath THEN get_git_info(git_ok) ELSE <<>>)

\* ProjectTracker.add_project where no Git info is read
AddProject(name, path) == AddProjectGit(name, path, FALSE)

\* the project ids add_task may go on with: int(project_ref) unchecked,
\* else any row of the LIKE query (fetchone, no ORDER BY)
AddTaskTargets(P, ref) ==
  IF ParsesAsInt(ref) THEN {IntValue(ref)} ELSE NameLikeRows(P, ref)

NewTask(pid, title, priority, due, ai, t) ==
  [project_id |-> pid, title |-> title, status |-> "pending",
   priority |-> priority, due_date |-> due, ai_generated |-> ai,
   created_at |-> t, updated_at |-> t]

\* ProjectTracker.add_task
AddTask(ref, priority, due) ==
  /\ UNCHANGED <<git_activity, now, message, updates, conn>>
  /\ IF AddTaskTargets(projects, ref) = {}
     THEN /\ UNCHANGED <<projects, tasks>>
          /\ last' = Call("add_task", ref, 0, 0, "", "NotFound", <<>>)
     ELSE \E pid \in AddTaskTargets(projects, ref) :
            IF due.kind = "invalid"
            THEN /\ UNCHANGED <<projects, tasks>>
                 /\ last' = Call("add_task", ref, pid, 0, "", "InvalidDate", <<>>)
            ELSE /\ tasks' = Append(tasks,
                      NewTask(pid, "cli task", priority,
                              IF due.kind = "date" THEN IsoFormat(due.y, due.m, due.d)
                                                   ELSE NULL,
                              FALSE, now))
                 /\ projects' = TouchProject(projects, pid, now)
                 /\ last' = Call("add_task", ref, pid, Len(tasks) + 1, "", "ok", <<>>)

\* ProjectTracker.update_task_status
UpdateTaskStatus(task_id, new_status) ==
  /\ UNCHANGED <<git_activity, now, message, updates, conn>>
  /\ IF new_status \notin valid_statuses
     THEN /\ UNCHANGED <<projects, tasks>>
          /\ last' = Call("update_task_status", <<>>, 0, task_id, new_status,
                          "InvalidStatus", <<>>)
     ELSE IF task_id \notin 1..Len(tasks)
     THEN /\ UNCHANGED <<projects, tasks>>
          /\ last' = Call("update_task_status", <<>>, 0, task_id, new_status,
                          "NotFound", <<>>)
     ELSE /\ tasks' = [tasks EXCEPT ![task_id].status = new_status,
                                    ![task_id].updated_at = now]
          /\ projects' = TouchProject(projects, tasks[task_id].project_id, now)
          /\ last' = Call("update_task_status", <<>>, tasks[task_id].project_id,
                          task_id, new_status, "ok", <<tasks[task_id].title>>)

\* the lookup shared by project_status, get_project_info and pt-setup-git:
\* fetchone() of the lookup rows, not found when there is none
Resolve(op, ref) ==
  /\ UNCHANGED <<projects, tasks, git_activity, now, message, updates, conn>>
  /\ IF LookupRows(projects, ref) = {}
     THEN last' = Call(op, ref, 0, 0, "", "NotFound", <<>>)
     ELSE \E pid \in LookupRows(projects, ref) :
            last' = Call(op, ref, pid, 0, "", "ok", <<>>)

\* ProjectTracker.project_status(project_ref)
ProjectStatus(ref) == Resolve("project_status", ref)

\* pt-setup-git.py main with a project argument
SetupGitHooks(ref) == Resolve("setup_git_hooks", ref)

(***************************************************************************)
(* pt-ai.py: create_task_from_nl                                           *)
(***************************************************************************)
\* what model.generate_content returns: text that is not JSON, or a JSON
\* object with the required keys, a priority and a number of subtasks
AiResponses ==
  { [json |-> FALSE, priority |-> MEDIUM, subtasks |-> 0] }
    \cup { [json |-> TRUE, priority |-> p, subtasks |-> n] :
             p \in {HIGH, URGENT}, n \in 0..1 }

\* ProjectTrackerAI.create_task_from_nl
CreateTaskFromNl(configured, ref, response) ==
  /\ UNCHANGED <<git_activity, now, message, updates, conn>>
  /\ IF ~configured
     THEN /\ UNCHANGED <<projects, tasks>>
          /\ last' = Call("create_task_from_nl", ref, 0, 0, "", "NotConfigured", <<>>)
     ELSE IF LookupRows(projects, ref) = {}
     THEN /\ UNCHANGED <<projects, tasks>>
          /\ last' = Call("create_task_from_nl", ref, 0, 0, "", "NotFound", <<>>)
     ELSE \E pid \in LookupRows(projects, ref) :
            IF ~response.json
            THEN /\ UNCHANGED <<projects, tasks>>
                 /\ last' = Call("create_task_from_nl", ref, pid, 0, "",
                                 "InvalidJSON", <<>>)
            ELSE /\ tasks' = Append(tasks,
                      NewTask(pid, "ai task", response.priority, NULL, TRUE, now))
                 /\ projects' = TouchProject(projects, pid, now)
                 \* the subtask inserts use the cursor of the connection that
                 \* was closed after the main task: they raise, nothing more
                 \* is written and the method returns False
                 /\ last' = Call("create_task_from_nl", ref, pid, Len(tasks) + 1, "",
                                 IF response.subtasks > 0 THEN "Error" ELSE "ok", <<>>)

(***************************************************************************)
(* project-tracker.py: list_tasks                                          *)
(***************************************************************************)
\* "no argument" for an optional command line argument
NoArg == <<"-">>
NoStatus == "-"

\* rows of tasks t JOIN projects p ON t.project_id = p.id WHERE ...
ListRows(ref, status_filter) ==
  {i \in 1..Len(tasks) :
     /\ tasks[i].project_id \in 1..Len(projects)
     /\ \/ ref = NoArg
        \/ IF ParsesAsInt(ref) THEN tasks[i].project_id = IntValue(ref)
           ELSE tasks[i].project_id \in NameLikeRows(projects, ref)
     /\ status_filter = NoStatus \/ tasks[i].status = status_filter}

\* NULL sorts before every value in ascending order
DueBefore(a, b) ==
  IF a = NULL THEN b # NULL
  ELSE IF b = NULL THEN FALSE
  ELSE TextLess(a, b)

\* ORDER BY t.priority DESC, t.due_date ASC, t.created_at DESC:
\* row a has to come before row b
SortsBefore(a, b) ==
  IF a.priority # b.priority THEN TextLess(b.priority, a.priority)
  ELSE IF a.due_date # b.due_date THEN DueBefore(a.due_date, b.due_date)
  ELSE a.created_at > b.created_at

\* the orders in which the query may return the rows (ties in any order)
Listings(rows) ==
  {l \in [1..Cardinality(rows) -> rows] :
     /\ \A i, j \in 1..Cardinality(rows) : i # j => l[i] # l[j]
     /\ \A i, j \in 1..Cardinality(rows) :
          i < j => ~SortsBefore(tasks[l[j]], tasks[l[i]])}

\* ProjectTracker.list_tasks
ListTasks(ref, status_filter) ==
  /\ UNCHANGED <<projects, tasks, git_activity, now, message, updates, conn>>
  /\ \E l \in Listings(ListRows(ref, status_filter)) :
       last' = Call("list_tasks", ref, 0, 0, status_filter, "ok", l)

(***************************************************************************)
(* pt-git-hook.py: update_task_from_git and main                           *)
(***************************************************************************)
\* parse_commit_message on each commit subject the hook is run on
HookUpdates ==
  [m \in HookMessages \cup MixedCaseMessages \cup OrderMessages |->
     parse_commit_message(m)]

\* the status update applied to every directive, bare references included
StatusActionsAll == {"completed", "in_progress", "blocked", "activity"}

\* the actions that set a status
StatusActions == {"completed", "in_progress", "blocked"}

\* a log that keeps one row per commit and task
InsertActivityOnce(A, row) ==
  IF \E i \in 1..Len(A) : /\ A[i].commit_hash = row.commit_hash
                          /\ A[i].task_id = row.task_id
  THEN A ELSE Append(A, row)

\* a log that keeps the latest row only
InsertActivityLatest(A, row) == <<row>>

\* INSERT INTO git_activity (project_id, task_id, commit_hash, branch_name,
\* message) VALUES (...): the table gets one more row
InsertActivity(A, row) == Append(A, row)

\* the whole hash of the commit
FullHash(commit_hash) == commit_hash

\* commit_hash[:8]
ShortHash(commit_hash) == SubSeq(commit_hash, 1, 8)

\* the decoded output of the subprocess with no fallback for a failure
BranchNameNoFallback(branch_ok) == IF branch_ok THEN "main" ELSE ""

\* update_task_from_git: git branch --show-current, 'unknown' when the
\* subprocess fails (bare except)
BranchName(branch_ok) == IF branch_ok THEN "main" ELSE "unknown"

\* update_task_from_git that looks the task up by id alone
UpdateTaskFromGitAnyProject(S, task_id, action, commit_hash, branch, msg, project_id, t) ==
  IF task_id \notin 1..Len(S.tasks)
  THEN [S EXCEPT !.out = Append(S.out, <<task_id, action, FALSE>>)]
  ELSE [tasks |-> IF action \in StatusActions
                  THEN [S.tasks EXCEPT ![task_id].status = action,
                                       ![task_id].updated_at = t]
                  ELSE S.tasks,
        projects |-> IF action \in StatusActions
                     THEN TouchProject(S.projects, project_id, t)
                     ELSE S.projects,
        git_activity |-> InsertActivity(S.git_activity,
                           [project_id |-> project_id, task_id |-> task_id,
                            commit_hash |-> commit_hash, branch_name |-> branch,
                            message |-> msg, timestamp |-> t]),
        out |-> Append(S.out, <<task_id, action, TRUE>>)]

\* update_task_from_git on the store S = [tasks, projects, git_activity, out]
UpdateTaskFromGit(S, task_id, action, commit_hash, branch, msg, project_id, t) ==
  IF ~(task_id \in 1..Len(S.tasks) /\ S.tasks[task_id].project_id = project_id)
  THEN [S EXCEPT !.out = Append(S.out, <<task_id, action, FALSE>>)]
  ELSE [tasks |-> IF action \in StatusActions
                  THEN [S.tasks EXCEPT ![task_id].status = action,
                                       ![task_id].updated_at = t]
                  ELSE S.tasks,
        projects |-> IF action \in StatusActions
                     THEN TouchProject(S.projects, project_id, t)
                     ELSE S.projects,
        git_activity |-> InsertActivity(S.git_activity,
                           [project_id |-> project_id, task_id |-> task_id,
                            commit_hash |-> commit_hash, branch_name |-> branch,
                            message |-> msg, timestamp |-> t]),
        out |-> Append(S.out, <<task_id, action, TRUE>>)]

\* the loop of main over the parsed updates
RECURSIVE ProcessUpdates(_, _, _, _, _, _, _)
ProcessUpdates(S, us, commit_hash, branch, msg, project_id, t) ==
  IF us = <<>> THEN S
  ELSE ProcessUpdates(
         UpdateTaskFromGit(S, us[1][1], us[1][2], commit_hash, branch, msg, project_id, t),
         Tail(us), commit_hash, branch, msg, project_id, t)

\* find_project_by_path: rows of SELECT id, name FROM projects WHERE path = ?
PathRows(P, repo_path) == {i \in 1..Len(P) : P[i].path = repo_path}

\* main of the post-commit hook.  repo_path is NoPath outside a repository;
\* git_ok: rev-parse HEAD and log succeed; branch_ok: branch --show-current
\* succeeds
HookMain(repo_path, git_ok, commit_hash, branch_ok, msg) ==
  /\ UNCHANGED now
  /\ IF repo_path = NoPath \/ PathRows(projects, repo_path) = {} \/ ~git_ok
     THEN /\ UNCHANGED <<projects, tasks, git_activity, message, updates, conn>>
          /\ last' = Call("hook", msg, 0, 0, "", "exit 0", <<>>)
     ELSE \E pid \in PathRows(projects, repo_path) :
            LET S == ProcessUpdates(
                       [tasks |-> tasks, projects |-> projects,
                        git_activity |-> git_activity, out |-> <<>>],
                       HookUpdates[msg], ShortHash(commit_hash),
                       BranchName(branch_ok), msg, pid, now)
            IN /\ UNCHANGED <<message, updates, conn>>
               /\ tasks' = S.tasks
               /\ projects' = S.projects
               /\ git_activity' = S.git_activity
               /\ last' = Call("hook", msg, pid, 0, "", "exit 0", S.out)

(***************************************************************************)
(* The store under every entry point that writes it.                       *)
(***************************************************************************)
\* the state stays within the bounds of the model
Bounded ==
  /\ Len(projects') <= MaxProjects
  /\ Len(tasks') <= MaxTasks
  /\ Len(git_activity') <= MaxActivity

StoreProjects == { <<NameWeb, "/repo/a">>, <<NameApi, NoPath>> }
StoreRefs == { <<"1">> }
WriterRefs == { <<"1">>, <<"2">> }
NoDue == [kind |-> "none", y |-> 0, m |-> 0, d |-> 0]
StoreResponses == {r \in AiResponses : r.subtasks = 0 /\ r.priority # URGENT}

Next ==
  \/ Tick
  \/ \E np \in StoreProjects : AddProject(np[1], np[2]) /\ Bounded
  \/ \E ref \in StoreRefs : AddTask(ref, MEDIUM, NoDue) /\ Bounded
  \/ \E task_id \in 1..(MaxTasks + 1), new_status \in StatusArgs :
       UpdateTaskStatus(task_id, new_status)
  \/ \E configured \in BOOLEAN, response \in StoreResponses :
       CreateTaskFromNl(configured, <<"1">>, response) /\ Bounded
  \/ \E repo_path \in {"/repo/a", NoPath}, git_ok \in BOOLEAN,
        commit_hash \in CommitHashes, branch_ok \in BOOLEAN, msg \in HookMessages :
       HookMain(repo_path, git_ok, commit_hash, branch_ok, msg) /\ Bounded

Spec == Init /\ [][Next]_vars

(***************************************************************************)
(* The writers of the store within one second: no operation reads a        *)
(* timestamp back, so what they do to names, statuses and the log is the   *)
(* same at any time.                                                       *)
(***************************************************************************)
NextWriters ==
  \/ \E np \in StoreProjects : AddProject(np[1], np[2]) /\ Bounded
  \/ \E ref \in WriterRefs : AddTask(ref, MEDIUM, NoDue) /\ Bounded
  \/ \E task_id \in 1..(MaxTasks + 1), new_status \in StatusArgs :
       UpdateTaskStatus(task_id, new_status)
  \/ \E configured \in BOOLEAN, response \in StoreResponses :
       CreateTaskFromNl(configured, <<"1">>, response) /\ Bounded
  \/ \E repo_path \in {"/repo/a", NoPath}, git_ok \in BOOLEAN,
        commit_hash \in CommitHashes, branch_ok \in BOOLEAN, msg \in HookMessages :
       HookMain(repo_path, git_ok, commit_hash, branch_ok, msg) /\ Bounded

SpecWriters == Init /\ [][NextWriters]_vars

(***************************************************************************)
(* The writers that a user reaches from the command line and from git:     *)
(* add-project, add, the status commands complete, start and block, and    *)
(* the post-commit hook.                                                   *)
(***************************************************************************)
\* the status commands with one that sets any valid status
CliStatusesAll == valid_statuses

\* the statuses that main passes to update_task_status for the commands
\* complete, start and block
CliStatuses == {"completed", "in_progress", "blocked"}

NextCli ==
  \/ \E np \in StoreProjects : AddProject(np[1], np[2]) /\ Bounded
  \/ \E ref \in WriterRefs : AddTask(ref, MEDIUM, NoDue) /\ Bounded
  \/ \E task_id \in 1..(MaxTasks + 1), new_status \in CliStatuses :
       UpdateTaskStatus(task_id, new_status)
  \/ \E repo_path \in {"/repo/a", NoPath}, git_ok \in BOOLEAN,
        branch_ok \in BOOLEAN, msg \in HookMessages :
       HookMain(repo_path, git_ok, HASHA, branch_ok, msg) /\ Bounded

SpecCli == Init /\ [][NextCli]_vars

(***************************************************************************)
(* The status setter with the clock running.                               *)
(***************************************************************************)
NextStatus ==
  \/ Tick
  \/ \E np \in StoreProjects : AddProject(np[1], np[2]) /\ Bounded
  \/ \E ref \in WriterRefs : AddTask(ref, MEDIUM, NoDue) /\ Bounded
  \/ \E task_id \in 1..(MaxTasks + 1), new_status \in StatusArgs :
       UpdateTaskStatus(task_id, new_status)

SpecStatus == Init /\ [][NextStatus]_vars

(***************************************************************************)
(* The resolver: every entry point that takes a project reference.         *)
(***************************************************************************)
NextResolve ==
  \/ \E name \in Names : AddProject(name, NoPath) /\ Bounded
  \/ \E ref \in Refs, due \in {d \in DueArgs : d.kind \in {"none", "invalid"}} :
       AddTask(ref, MEDIUM, due) /\ Bounded
  \/ \E ref \in Refs : ProjectStatus(ref)
  \/ \E ref \in Refs : SetupGitHooks(ref)
  \/ \E ref \in Refs, response \in StoreResponses :
       CreateTaskFromNl(TRUE, ref, response) /\ Bounded

SpecResolve == Init /\ [][NextResolve]_vars

(***************************************************************************)
(* The entry points that run git subprocesses beside their writes, with    *)
(* the subprocesses succeeding and failing.                                *)
(***************************************************************************)
NextGit ==
  \/ \E np \in StoreProjects, git_ok \in BOOLEAN :
       AddProjectGit(np[1], np[2], git_ok) /\ Bounded
  \/ \E ref \in WriterRefs : AddTask(ref, MEDIUM, NoDue) /\ Bounded
  \/ \E repo_path \in {"/repo/a", NoPath}, git_ok \in BOOLEAN,
        branch_ok \in BOOLEAN, msg \in HookMessages :
       HookMain(repo_path, git_ok, HASHA, branch_ok, msg) /\ Bounded

SpecGit == Init /\ [][NextGit]_vars

(***************************************************************************)
(* The two entry points that create tasks: the `add` command with each of  *)
(* its priority choices and the AI creation with each response.            *)
(***************************************************************************)
NextAi ==
  \/ AddProject(NameWeb, NoPath)
  \/ \E priority \in PriorityChoices :
       AddTask(<<"1">>, priority, NoDue) /\ Len(tasks') <= MaxListTasks
  \/ \E configured \in BOOLEAN, response \in AiResponses :
       CreateTaskFromNl(configured, <<"1">>, response) /\ Len(tasks') <= MaxListTasks

SpecAi == Init /\ [][NextAi]_vars

(***************************************************************************)
(* The task listing: one project, tasks of every priority and due date.    *)
(***************************************************************************)
BoundedList == Len(tasks') <= MaxListTasks

NextList ==
  \/ Tick
  \/ AddProject(NameWeb, NoPath)
  \/ \E priority \in PriorityChoices, due \in {d \in DueArgs : d.kind # "invalid"} :
       AddTask(<<"1">>, priority, due) /\ BoundedList
  \/ \E ref \in {NoArg, <<"1">>}, status_filter \in {NoStatus, "pending"} :
       ListTasks(ref, status_filter)

SpecList == Init /\ [][NextList]_vars

(***************************************************************************)
(* The commit message parser on its own: every message of Messages.        *)
(***************************************************************************)
InitParse ==
  /\ projects = <<>>
  /\ tasks = <<>>
  /\ git_activity = <<>>
  /\ now = 0
  /\ last = NoCall
  /\ message \in Messages \cup LongMessages
  /\ updates = <<>>
  /\ conn = NoInvocation

ParseCommitMessage ==
  /\ last.op = "none"
  /\ updates' = parse_commit_message(message)
  /\ last' = Call("parse_commit_message", <<>>, 0, 0, "", "ok", <<>>)
  /\ UNCHANGED <<projects, tasks, git_activity, now, message, conn>>

NextParse == ParseCommitMessage

SpecParse == InitParse /\ [][NextParse]_vars

(***************************************************************************)
(* Concurrent invocations.  Each invocation is a process with its own      *)
(* connection; its steps are its SQL statements and commits.  projects,    *)
(* tasks and git_activity are the committed database, which is what every  *)
(* other connection reads; the writes of an open transaction are in the    *)
(* connection's tx until it commits.  One connection at a time holds the   *)
(* write lock, from its first write statement to its commit.               *)
(***************************************************************************)
\* a connection opened with isolation_level=None commits every statement
AutocommitOn == TRUE

\* sqlite3.connect(db_path) with the default isolation_level: a write
\* statement opens a transaction that lasts until conn.commit()
Autocommit == FALSE

\* no other connection holds the write lock
LockFree(p) == \A q \in Procs \ {p} : ~conn[q].tx.open

\* the database as the connection of p sees it
View(p) ==
  IF conn[p].tx.open THEN conn[p].tx
  ELSE [open |-> TRUE, tasks |-> tasks, projects |-> projects,
        git_activity |-> git_activity]

\* cursor.execute of a write statement that leaves the database as view
Execute(p, view, pc) ==
  /\ LockFree(p)
  /\ UNCHANGED <<now, last, message, updates>>
  /\ IF Autocommit
     THEN /\ tasks' = view.tasks
          /\ projects' = view.projects
          /\ git_activity' = view.git_activity
          /\ conn' = [conn EXCEPT ![p].pc = pc, ![p].tx = NoTx]
     ELSE /\ UNCHANGED store
          /\ conn' = [conn EXCEPT ![p].pc = pc, ![p].tx = view]

\* the invocation of p ends
End(p, op, result, exit, seen) ==
  conn' = [conn EXCEPT ![p] = Closed(op, result, exit, seen)]

\* the invocation of p goes on at pc
Running(op, pc, task_id, status, project_id, rest, msg) ==
  [Closed(op, "", 0, {}) EXCEPT !.pc = pc, !.task_id = task_id, !.status = status,
                                !.project_id = project_id, !.rest = rest,
                                !.msg = msg, !.started = now]

\* update_task_status up to its SELECT
StartUpdateTaskStatus(p, task_id, new_status) ==
  /\ conn[p].pc = "closed"
  /\ UNCHANGED <<store, now, last, message, updates>>
  /\ IF new_status \notin valid_statuses
     THEN End(p, "update_task_status", "InvalidStatus", 0, {})
     ELSE IF task_id \notin 1..Len(tasks)
     THEN End(p, "update_task_status", "NotFound", 0, {})
     ELSE conn' = [conn EXCEPT ![p] =
            Running("update_task_status", "update_tasks", task_id, new_status,
                    tasks[task_id].project_id, <<>>, <<>>)]

\* UPDATE tasks SET status = ?, updated_at = CURRENT_TIMESTAMP WHERE id = ?
UpdateTasksStatement(p) ==
  /\ conn[p].pc = "update_tasks"
  /\ Execute(p, [View(p) EXCEPT !.tasks =
                   [@ EXCEPT ![conn[p].task_id].status = conn[p].status,
                             ![conn[p].task_id].updated_at = now]],
             "update_projects")

\* UPDATE projects SET updated_at = CURRENT_TIMESTAMP WHERE id = ?
UpdateProjectsStatement(p) ==
  /\ conn[p].pc = "update_projects"
  /\ Execute(p, [View(p) EXCEPT !.projects = TouchProject(@, conn[p].project_id, now)],
             "commit")

\* conn.commit() ending a transaction; the hook goes on with its next update
Commit(p) ==
  /\ conn[p].pc = "commit"
  /\ UNCHANGED <<now, last, message, updates>>
  /\ IF conn[p].tx.open
     THEN /\ tasks' = conn[p].tx.tasks
          /\ projects' = conn[p].tx.projects
          /\ git_activity' = conn[p].tx.git_activity
     ELSE UNCHANGED store
  /\ IF conn[p].op = "hook" /\ Len(conn[p].rest) > 1
     THEN conn' = [conn EXCEPT ![p].pc = "check", ![p].tx = NoTx,
                               ![p].rest = Tail(conn[p].rest)]
     ELSE End(p, conn[p].op, "ok", 0, {})

\* add_task up to the lookup of the project
StartAddTask(p, ref) ==
  /\ conn[p].pc = "closed"
  /\ UNCHANGED <<store, now, last, message, updates>>
  /\ IF AddTaskTargets(projects, ref) = {}
     THEN End(p, "add_task", "NotFound", 0, {})
     ELSE \E pid \in AddTaskTargets(projects, ref) :
            conn' = [conn EXCEPT ![p] =
              Running("add_task", "insert", 0, "", pid, <<>>, <<>>)]

\* INSERT INTO tasks (project_id, title, description, priority, due_date)
InsertTask(p) ==
  /\ conn[p].pc = "insert"
  /\ Execute(p, [View(p) EXCEPT !.tasks =
                   Append(@, NewTask(conn[p].project_id, "cli task", MEDIUM, NULL,
                                     FALSE, now))],
             "commit_insert")

\* the conn.commit() of add_task after the INSERT, before the project is
\* touched
CommitInsert(p) ==
  /\ conn[p].pc = "commit_insert"
  /\ UNCHANGED <<now, last, message, updates>>
  /\ IF conn[p].tx.open
     THEN /\ tasks' = conn[p].tx.tasks
          /\ projects' = conn[p].tx.projects
          /\ git_activity' = conn[p].tx.git_activity
     ELSE UNCHANGED store
  /\ conn' = [conn EXCEPT ![p].pc = "touch", ![p].tx = NoTx,
                          ![p].task_id = Len(tasks')]

\* add_task: UPDATE projects SET updated_at = CURRENT_TIMESTAMP WHERE id = ?
\* in a transaction of its own
TouchStatement(p) ==
  /\ conn[p].pc = "touch"
  /\ Execute(p, [View(p) EXCEPT !.projects = TouchProject(@, conn[p].project_id, now)],
             "commit")

\* main of the hook up to the loop over the parsed updates
StartHook(p, repo_path, msg) ==
  /\ conn[p].pc = "closed"
  /\ UNCHANGED <<store, now, last, message, updates>>
  /\ IF repo_path = NoPath \/ PathRows(projects, repo_path) = {}
          \/ HookUpdates[msg] = <<>>
     THEN End(p, "hook", "ok", 0, {})
     ELSE \E pid \in PathRows(projects, repo_path) :
            conn' = [conn EXCEPT ![p] =
              Running("hook", "check", 0, "", pid, HookUpdates[msg], msg)]

\* update_task_from_git: SELECT title FROM tasks WHERE id = ? AND
\* project_id = ?; without a row the update fails and main goes on
HookCheck(p) ==
  /\ conn[p].pc = "check"
  /\ UNCHANGED <<store, now, last, message, updates>>
  /\ LET task_id == conn[p].rest[1][1]
     IN IF task_id \in 1..Len(tasks)
             /\ tasks[task_id].project_id = conn[p].project_id
        THEN conn' = [conn EXCEPT ![p].pc = "log", ![p].task_id = task_id,
                                  ![p].status = conn[p].rest[1][2]]
        ELSE IF Len(conn[p].rest) > 1
        THEN conn' = [conn EXCEPT ![p].rest = Tail(conn[p].rest)]
        ELSE End(p, "hook", "ok", 0, {})

\* update_task_from_git: INSERT INTO git_activity (project_id, task_id,
\* commit_hash, branch_name, message), the first statement of the
\* transaction; a status action goes on with the two UPDATEs, which are the
\* statements of update_task_status, before the one conn.commit()
InsertActivityStatement(p, commit_hash, branch_ok) ==
  /\ conn[p].pc = "log"
  /\ Execute(p, [View(p) EXCEPT !.git_activity =
                   InsertActivity(@,
                     [project_id |-> conn[p].project_id,
                      task_id |-> conn[p].task_id,
                      commit_hash |-> ShortHash(commit_hash),
                      branch_name |-> BranchName(branch_ok),
                      message |-> conn[p].msg, timestamp |-> now])],
             IF conn[p].status \in StatusActions THEN "update_tasks" ELSE "commit")

\* the pcs at which a connection starts a transaction
BeginPcs == {"update_tasks", "insert", "touch", "log"}

\* another connection holds the write lock for longer than the busy timeout
\* of the connection: the statement raises sqlite3.OperationalError
\* (database is locked), which no entry point catches
LockTimeout(p) ==
  /\ conn[p].pc \in BeginPcs
  /\ ~LockFree(p)
  /\ UNCHANGED <<store, now, last, message, updates>>
  /\ End(p, conn[p].op, "OperationalError", 1, {})

\* what SELECT ... FROM tasks t JOIN projects p ON t.project_id = p.id
\* returns: each task with its creation time and its project's updated_at
ReadJoin ==
  {<<i, tasks[i].created_at, projects[tasks[i].project_id].updated_at>> :
     i \in ListRows(NoArg, NoStatus)}

\* a reading invocation: one SELECT on the committed database
StartListTasks(p) ==
  /\ conn[p].pc = "closed"
  /\ UNCHANGED <<store, now, last, message, updates>>
  /\ End(p, "list_tasks", "ok", 0, ReadJoin)

\* the database after add_project of one project with a repository
InitConc ==
  /\ projects = <<[name |-> NameWeb, path |-> "/repo/a", status |-> "active",
                   created_at |-> 0, updated_at |-> 0]>>
  /\ tasks = <<>>
  /\ git_activity = <<>>
  /\ now = 0
  /\ last = NoCall
  /\ message = <<>>
  /\ updates = <<>>
  /\ conn = NoInvocation

\* the writes of open transactions stay within the bounds of the model
BoundedConc ==
  /\ Bounded
  /\ \A p \in Procs : /\ Len(conn'[p].tx.tasks) <= MaxTasks
                      /\ Len(conn'[p].tx.git_activity) <= MaxActivity

ConcMessages == { Join(<<Clause(1, WDONE)>>) }

NextConc ==
  \/ Tick
  \/ \E p \in Procs, task_id \in 1..(MaxTasks + 1), new_status \in StatusArgs :
       StartUpdateTaskStatus(p, task_id, new_status)
  \/ \E p \in Procs : UpdateTasksStatement(p)
  \/ \E p \in Procs : UpdateProjectsStatement(p)
  \/ \E p \in Procs : Commit(p)
  \/ \E p \in Procs : StartAddTask(p, <<"1">>)
  \/ \E p \in Procs : InsertTask(p) /\ BoundedConc
  \/ \E p \in Procs : CommitInsert(p)
  \/ \E p \in Procs : TouchStatement(p)
  \/ \E p \in Procs, repo_path \in {"/repo/a", NoPath}, msg \in ConcMessages :
       StartHook(p, repo_path, msg)
  \/ \E p \in Procs : HookCheck(p)
  \/ \E p \in Procs : InsertActivityStatement(p, HASHA, TRUE) /\ BoundedConc
  \/ \E p \in Procs : LockTimeout(p)
  \/ \E p \in Procs : StartListTasks(p)

SpecConc == InitConc /\ [][NextConc]_vars

(***************************************************************************)
(* Concurrent invocations of add_task and update_task_status only.  The    *)
(* processes are interchangeable: with add_task run by process 1 alone,    *)
(* every interleaving of two invocations is still there up to the names of *)
(* the processes.                                                          *)
(***************************************************************************)
NextTxn ==
  \/ Tick
  \/ \E p \in Procs, task_id \in 1..MaxTasks, new_status \in StatusArgs :
       StartUpdateTaskStatus(p, task_id, new_status)
  \/ \E p \in Procs : UpdateTasksStatement(p)
  \/ \E p \in Procs : UpdateProjectsStatement(p)
  \/ \E p \in Procs : Commit(p)
  \/ StartAddTask(1, <<"1">>)
  \/ InsertTask(1) /\ BoundedConc
  \/ CommitInsert(1)
  \/ TouchStatement(1)
  \/ \E p \in Procs : LockTimeout(p)

SpecTxn == InitConc /\ [][NextTxn]_vars

(***************************************************************************)
(* Concurrent runs of the hook in one repository, with an invocation of    *)
(* update_task_status beside them: one project with one task.              *)
(***************************************************************************)
InitHookTxn ==
  /\ projects = <<[name |-> NameWeb, path |-> "/repo/a", status |-> "active",
                   created_at |-> 0, updated_at |-> 0]>>
  /\ tasks = <<NewTask(1, "cli task", MEDIUM, NULL, FALSE, 0)>>
  /\ git_activity = <<>>
  /\ now = 0
  /\ last = NoCall
  /\ message = <<>>
  /\ updates = <<>>
  /\ conn = NoInvocation

\* commit subjects with a status directive, "pt:1 done", and with a bare
\* reference, "See pt:1"
HookTxnMessages == { Join(<<Clause(1, WDONE)>>), <<"S","e","e"," ">> \o RefText(1) }

NextHookTxn ==
  \/ Tick
  \/ \E p \in Procs, msg \in HookTxnMessages : StartHook(p, "/repo/a", msg)
  \/ \E p \in Procs : HookCheck(p)
  \/ \E p \in Procs : InsertActivityStatement(p, HASHA, TRUE) /\ BoundedConc
  \/ \E p \in Procs : UpdateTasksStatement(p)
  \/ \E p \in Procs : UpdateProjectsStatement(p)
  \/ \E p \in Procs : Commit(p)
  \/ \E p \in Procs : LockTimeout(p)
  \/ \E new_status \in {"pending", "blocked"} :
       StartUpdateTaskStatus(2, 1, new_status)

SpecHookTxn == InitHookTxn /\ [][NextHookTxn]_vars

(***************************************************************************)
(* The post-commit hook in two repositories, each of a project with one    *)
(* task.                                                                   *)
(***************************************************************************)
MaxHookActivity == 4

\* the database after add_project and add_task for two projects
InitHook ==
  /\ projects = <<[name |-> NameWeb, path |-> "/repo/a", status |-> "active",
                   created_at |-> 0, updated_at |-> 0],
                  [name |-> NameApi, path |-> "/repo/b", status |-> "active",
                   created_at |-> 0, updated_at |-> 0]>>
  /\ tasks = <<NewTask(1, "cli task", MEDIUM, NULL, FALSE, 0),
               NewTask(2, "cli task", MEDIUM, NULL, FALSE, 0)>>
  /\ git_activity = <<>>
  /\ now = 0
  /\ last = NoCall
  /\ message = <<>>
  /\ updates = <<>>
  /\ conn = NoInvocation

\* CURRENT_TIMESTAMP advances while the report of the last run stays on the
\* terminal
Elapse ==
  /\ now < MaxClock
  /\ now' = now + 1
  /\ UNCHANGED <<projects, tasks, git_activity, last, message, updates, conn>>

NextHook ==
  \/ Elapse
  \/ \E task_id \in 1..2 : UpdateTaskStatus(task_id, "pending")
  \/ \E repo_path \in {"/repo/a", "/repo/b"}, msg \in MixedCaseMessages :
       /\ HookMain(repo_path, TRUE, HASHA, TRUE, msg)
       /\ Len(git_activity') <= MaxHookActivity
  \/ \E repo_path \in {"/repo/a", "/repo/c", NoPath}, git_ok \in BOOLEAN :
       HookMain(repo_path, git_ok, HASHA, FALSE, WFIX)

SpecHook == InitHook /\ [][NextHook]_vars

(***************************************************************************)
(* The commit subject is typed, retyped with letters in the other case,    *)
(* parsed, and then committed in the repository of project 1.              *)
(***************************************************************************)
InitCase ==
  /\ projects = <<[name |-> NameWeb, path |-> "/repo/a", status |-> "active",
                   created_at |-> 0, updated_at |-> 0]>>
  /\ tasks = <<NewTask(1, "cli task", MEDIUM, NULL, FALSE, 0)>>
  /\ git_activity = <<>>
  /\ now = 0
  /\ last = NoCall
  /\ message \in CaseMessages
  /\ updates = parse_commit_message(message)
  /\ conn = NoInvocation

\* the subject with its i-th character in the other case, and what
\* parse_commit_message returns for it
Recase(i) ==
  /\ last.op = "none"
  /\ SwapCase(message[i]) # message[i]
  /\ message' = [message EXCEPT ![i] = SwapCase(@)]
  /\ updates' = parse_commit_message(message')
  /\ UNCHANGED <<projects, tasks, git_activity, now, last, conn>>

NextCase ==
  \/ \E i \in 1..Len(message) : Recase(i)
  \/ Elapse
  \/ /\ message \in MixedCaseMessages \cup HookMessages
     /\ HookMain("/repo/a", TRUE, HASHA, TRUE, message)
     /\ Len(git_activity') <= MaxHookActivity

SpecCase == InitCase /\ [][NextCase]_vars

(***************************************************************************)
(* Hook runs on commit subjects that name one task with two status         *)
(* keywords.                                                               *)
(***************************************************************************)
NextOrder ==
  \/ Elapse
  \/ \E task_id \in 1..2 : UpdateTaskStatus(task_id, "pending")
  \/ \E repo_path \in {"/repo/a", "/repo/b"}, msg \in OrderMessages :
       /\ HookMain(repo_path, TRUE, HASHA, TRUE, msg)
       /\ Len(git_activity') <= MaxHookActivity + 1

SpecOrder == InitHook /\ [][NextOrder]_vars

(***************************************************************************)
(* Properties.                                                             *)
(***************************************************************************)
\* the closed set of task statuses
TaskStatusValues == {"pending", "in_progress", "completed", "blocked"}

\* the entry points that resolve a project reference
ResolverOps == {"add_task", "project_status", "setup_git_hooks", "create_task_from_nl"}

\* ref occurs in name as a substring, letter case respected
Contains(name, ref) ==
  \E i \in 1..(Len(name) - Len(ref) + 1) : HasPrefixAt(name, i, ref)

Parsed == last.op = "parse_commit_message"

\* C1: in every reachable state every task's project_id is the id of an
\* existing project.
C1_TaskProjectExists ==
  \A t \in 1..Len(tasks) : tasks[t].project_id \in 1..Len(projects)

\* C2: a message "pt:A <completed keyword>, pt:B <in-progress keyword>" with
\* A # B parses to exactly (A, completed), (B, in_progress).
C2_TwoDirectives ==
  \A a \in MsgIds, b \in MsgIds, kc \in CompletedKeywords, kp \in InProgressKeywords :
    (Parsed /\ a # b /\ message = Join(<<Clause(a, kc), Clause(b, kp)>>))
      => updates = << <<a, "completed">>, <<b, "in_progress">> >>

\* C3: "pt:N k" yields (N, completed) for every completed keyword k,
\* (N, in_progress) for every in-progress keyword and (N, blocked) for every
\* blocked keyword.
C3_KeywordActions ==
  \A n \in MsgIds :
    /\ \A k \in CompletedKeywords :
         (Parsed /\ message = Clause(n, k)) => <<n, "completed">> \in Range(updates)
    /\ \A k \in InProgressKeywords :
         (Parsed /\ message = Clause(n, k)) => <<n, "in_progress">> \in Range(updates)
    /\ \A k \in BlockedKeywords :
         (Parsed /\ message = Clause(n, k)) => <<n, "blocked">> \in Range(updates)

\* high = 3, medium = 2, low = 1
PriorityRank(p) == CASE p = HIGH -> 3 [] p = MEDIUM -> 2 [] p = LOW -> 1 [] OTHER -> 0

\* C4: list_tasks lists a task of higher priority before every task of lower
\* priority (high, then medium, then low).
C4_PriorityOrder ==
  last.op = "list_tasks" =>
    \A i, j \in 1..Len(last.out) :
      i < j => PriorityRank(tasks[last.out[i]].priority)
                 >= PriorityRank(tasks[last.out[j]].priority)

\* C5: among listed tasks of equal priority, dated tasks come in ascending
\* order of due date, undated tasks after all dated ones, and tasks of equal
\* due date in descending order of creation time.
C5_DueDateOrder ==
  last.op = "list_tasks" =>
    \A i, j \in 1..Len(last.out) :
      LET a == tasks[last.out[i]]
          b == tasks[last.out[j]]
      IN (i < j /\ a.priority = b.priority) =>
           /\ a.due_date = NULL => b.due_date = NULL
           /\ (a.due_date # NULL /\ b.due_date # NULL) => ~TextLess(b.due_date, a.due_date)
           /\ a.due_date = b.due_date => a.created_at >= b.created_at

\* C6: a reference that parses as an integer and is the id of no project
\* makes the operation fail with NotFound without writing anything.
C6_IntegerRefExactId ==
  [][ (/\ last'.op \in ResolverOps
       /\ ParsesAsInt(last'.ref)
       /\ IntValue(last'.ref) \notin 1..Len(projects))
        => (last'.result = "NotFound" /\ UNCHANGED store) ]_vars

\* C7: a reference that does not parse as an integer resolves to a project
\* whose name contains it as a case-sensitive substring; when no project name
\* contains it the operation fails with NotFound without writing anything.
C7_NameRefSubstring ==
  [][ (last'.op \in ResolverOps /\ ~ParsesAsInt(last'.ref)) =>
        IF \E p \in 1..Len(projects) : Contains(projects[p].name, last'.ref)
        THEN /\ last'.project_id \in 1..Len(projects)
             /\ Contains(projects[last'.project_id].name, last'.ref)
        ELSE last'.result = "NotFound" /\ UNCHANGED store ]_vars

\* C8: add_project with the name of an existing project fails with
\* DuplicateName and leaves the store unchanged, and no two projects ever
\* have the same name.
C8_DuplicateName ==
  /\ [](\A i, j \in 1..Len(projects) : i # j => projects[i].name # projects[j].name)
  /\ [][ (/\ last'.op = "add_project"
          /\ \E i \in 1..Len(projects) : projects[i].name = last'.ref)
           => (last'.result = "DuplicateName" /\ UNCHANGED store) ]_vars

C8_Witness ==
  /\ last.op = "add_project"
  /\ last.result = "DuplicateName"
  /\ \E i \in 1..Len(projects) : projects[i].name = last.ref

\* C9: in every reachable state every task's status is one of pending,
\* in_progress, completed, blocked.
C9_StatusClosed ==
  \A t \in 1..Len(tasks) : tasks[t].status \in TaskStatusValues

\* a hook directive has set the status of a task
C9_Witness ==
  /\ last.op = "hook"
  /\ \E i \in 1..Len(last.out) :
       /\ last.out[i][3]
       /\ last.out[i][2] \in {"completed", "in_progress", "blocked"}
       /\ tasks[last.out[i][1]].status = last.out[i][2]

\* C10: update_task_status with a status outside the closed set, or with the
\* id of no task, changes no task and no project.
C10_RejectedStatusNoWrite ==
  [][ (/\ last'.op = "update_task_status"
       /\ \/ last'.status \notin TaskStatusValues
          \/ last'.task_id \notin 1..Len(tasks))
        => UNCHANGED <<projects, tasks>> ]_vars

C10_Witness ==
  /\ last.op = "update_task_status"
  /\ last.status \notin TaskStatusValues
  /\ last.task_id \in 1..Len(tasks)
  /\ tasks[last.task_id].status # "pending"

\* C11: for every valid status value, an update_task_status that succeeds
\* writes the task's status and updated_at and the owning project's updated_at
\* in one commit, also with another invocation running in between its
\* statements: the step that ends it with success puts the new status, a task
\* updated_at of this invocation and a project updated_at that is not earlier
\* into the committed database, and no other step of it changes the database.
C11_StatusTransaction ==
  [][\A p \in Procs :
       (conn'[p] # conn[p] /\ "update_task_status" \in {conn[p].op, conn'[p].op}
          /\ (conn[p].pc # "closed" \/ conn'[p].op = "update_task_status"))
       => IF conn[p].pc = "commit"
          THEN /\ conn'[p].result = "ok"
               /\ conn[p].status \in valid_statuses
               /\ tasks'[conn[p].task_id].status = conn[p].status
               /\ tasks'[conn[p].task_id].updated_at >= conn[p].started
               /\ conn[p].project_id \in 1..Len(projects')
               /\ projects'[conn[p].project_id].updated_at
                    >= tasks'[conn[p].task_id].updated_at
          ELSE UNCHANGED store]_vars

\* an update_task_status has committed a status and timestamps later than
\* the task's creation while the other invocation is between two statements
C11_Witness ==
  \E p, q \in Procs :
    /\ p # q
    /\ conn[p].op = "update_task_status" /\ conn[p].result = "ok"
    /\ conn[q].pc \notin {"closed"}
    /\ Len(tasks) >= 1 /\ tasks[1].status = "blocked"
    /\ tasks[1].updated_at > tasks[1].created_at
    /\ projects[tasks[1].project_id].updated_at = tasks[1].updated_at

\* C12: an invocation that reads the store while add_task runs never sees a
\* task whose project's updated_at is earlier than the task's creation.
C12_ReaderSeesTouchedProject ==
  \A p \in Procs :
    conn[p].op = "list_tasks" => \A r \in conn[p].seen : r[3] >= r[2]

\* C18: every run of the git hook ends with exit status 0, also when a
\* statement of one of its updates fails on the store because another
\* invocation holds the database.
C18_HookExitsZero ==
  \A p \in Procs :
    (conn[p].op = "hook" /\ conn[p].pc = "closed") => conn[p].exit = 0

\* after the step, project pid exists, was touched at the time of the
\* operation and is not older than task tid
TouchedBy(pid, tid) ==
  /\ pid \in 1..Len(projects')
  /\ projects'[pid].updated_at = now
  /\ projects'[pid].updated_at >= tasks'[tid].updated_at

\* C13: whenever add_task or create_task_from_nl creates a task, or
\* update_task_status or a hook directive with action completed, in_progress
\* or blocked sets a status, the owning project's updated_at is set to the
\* time of the operation and is not earlier than the task's updated_at.
C13_ProjectTouched ==
  [][/\ (last'.op \in {"add_task", "create_task_from_nl", "update_task_status"}
           /\ last'.result = "ok")
        => TouchedBy(last'.project_id, last'.task_id)
     /\ last'.op = "hook"
        => \A k \in 1..Len(last'.out) :
             (last'.out[k][3] /\ last'.out[k][2] \in StatusActions)
             => TouchedBy(last'.project_id, last'.out[k][1])]_vars

\* each clause written twice and three times
RepeatedClause == [c \in Clauses |-> {Join(<<c, c>>), Join(<<c, c, c>>)}]

HookRan == last'.op = "hook" /\ last'.project_id # 0 /\ now' = now

\* the directives of the run that passed the task-in-project check
Survivors == {k \in 1..Len(last'.out) : last'.out[k][3]}

SurvivorAt(n) ==
  CHOOSE k \in Survivors : Cardinality({j \in Survivors : j <= k}) = n

\* C16: a hook run appends one activity record per directive that passes the
\* task-in-project check, bare references included, in the order of the
\* directives: its project_id is the committing project, its task_id the
\* directive's task, its commit_hash the first 8 characters of the hash and
\* its message the commit subject as written.
C16_OneRecordPerDirective ==
  [][HookRan =>
       /\ Len(git_activity') = Len(git_activity) + Cardinality(Survivors)
       /\ \A n \in 1..Cardinality(Survivors) :
            LET row == git_activity'[Len(git_activity) + n]
            IN /\ row.project_id = last'.project_id
               /\ row.task_id = last'.out[SurvivorAt(n)][1]
               /\ row.commit_hash = [i \in 1..8 |-> HASHA[i]]
               /\ row.message = last'.ref]_vars

\* the run on "PT:1 Done" has logged its two directives, the bare reference
\* included, with the subject in its original case
C16_Witness ==
  /\ last.op = "hook"
  /\ last.ref = <<"P","T",":","1"," ","D","o","n","e">>
  /\ last.out = << <<1, "completed", TRUE>>, <<1, "activity", TRUE>> >>
  /\ Len(git_activity) >= 2
  /\ git_activity[Len(git_activity)].message = last.ref
  /\ git_activity[Len(git_activity)].message # Lower(last.ref)
  /\ Len(git_activity[Len(git_activity)].commit_hash) = 8

\* C17: a directive with action 'activity' sets no status: a task without a
\* surviving completed, in_progress or blocked directive keeps its status and
\* updated_at, and a run without such a directive leaves every task and
\* every project as it was while the log grows by its surviving directives.
C17_ActivityNoStatus ==
  [][HookRan =>
       LET Setters == {k \in Survivors : last'.out[k][2] # "activity"}
       IN /\ \A i \in 1..Len(tasks) :
               (\A k \in Setters : last'.out[k][1] # i)
                 => /\ tasks'[i].status = tasks[i].status
                    /\ tasks'[i].updated_at = tasks[i].updated_at
          /\ Setters = {} => (tasks' = tasks /\ projects' = projects)
          /\ \A k \in Setters : last'.out[k][2] \in {"completed", "in_progress", "blocked"}
          /\ Len(git_activity') >= Len(git_activity) + Cardinality(Survivors \ Setters)]_vars

\* the run on "See pt:1" has logged the bare reference at a time later than
\* the last update of the completed task and of its project
C17_Witness ==
  /\ last.op = "hook"
  /\ last.out = << <<1, "activity", TRUE>> >>
  /\ tasks[1].status = "completed"
  /\ tasks[1].updated_at < now
  /\ projects[1].updated_at < now
  /\ Len(git_activity) >= 1
  /\ git_activity[Len(git_activity)].timestamp = now

\* two activity records of the same commit for the same task; the timestamp
\* and the branch are read anew at every run
SameRow(a, b) ==
  /\ a.project_id = b.project_id
  /\ a.task_id = b.task_id
  /\ a.commit_hash = b.commit_hash
  /\ a.message = b.message

\* C19: a hook run that directly follows a run on the same commit in the same
\* repository reports the same directives, appends the rows of the first run
\* once more and leaves every task's status as the first run left it.
C19_HookRerun ==
  [][(/\ last.op = "hook" /\ last.project_id # 0
      /\ HookRan /\ last'.ref = last.ref
      /\ last'.project_id = last.project_id)
     => LET n == Cardinality({k \in 1..Len(last.out) : last.out[k][3]})
        IN /\ last'.out = last.out
           /\ \A i \in 1..Len(tasks) : tasks'[i].status = tasks[i].status
           /\ n <= Len(git_activity)
           /\ Len(git_activity') = Len(git_activity) + n
           /\ \A j \in 1..n :
                SameRow(git_activity'[Len(git_activity) + j],
                        git_activity[Len(git_activity) - n + j])]_vars

\* "PT:1 Done" has been run twice, the second time later: four rows, task 1
\* completed
C19_Witness ==
  /\ last.op = "hook"
  /\ last.ref = <<"P","T",":","1"," ","D","o","n","e">>
  /\ Len(git_activity) = 4
  /\ SameRow(git_activity[3], git_activity[1])
  /\ SameRow(git_activity[4], git_activity[2])
  /\ git_activity[3].timestamp > git_activity[1].timestamp
  /\ tasks[1].status = "completed"

\* C20: the activity log is append-only: every step of every entry point
\* leaves the rows that are in the log as they are and where they are, so the
\* log is a prefix of the log of every later state.
C20_AppendOnly ==
  [][/\ Len(git_activity') >= Len(git_activity)
     /\ \A i \in 1..Len(git_activity) : git_activity'[i] = git_activity[i]]_vars

\* rows are in the log and a later command has written the store
C20_Witness ==
  /\ Len(git_activity) = 2
  /\ last.op = "update_task_status"
  /\ last.result = "ok"
  /\ tasks[1].status = "pending"


\* C21: a step of a hook run whose directive has a status action changes the
\* committed database only by appending the directive's record together with
\* setting the task's status and touching the project: no committed state
\* has the one without the other
C21_HookAtomic ==
  [][\A p \in Procs :
       (/\ conn[p].op = "hook"
        /\ conn'[p] # conn[p]
        /\ conn[p].status \in {"completed", "in_progress", "blocked"}
        /\ store' # store)
       => /\ Len(git_activity') = Len(git_activity) + 1
          /\ git_activity'[Len(git_activity')].task_id = conn[p].task_id
          /\ SubSeq(git_activity', 1, Len(git_activity)) = git_activity
          /\ tasks'[conn[p].task_id].status = conn[p].status
          /\ tasks'[conn[p].task_id].updated_at >= conn[p].started
          /\ projects'[conn[p].project_id].updated_at >= conn[p].started
          /\ \A q \in Procs \ {p} : ~conn[q].tx.open]_vars

\* a hook has committed its record and its status while the other
\* invocation was between its SELECT and its first write
C21_Witness ==
  \E p \in Procs, q \in Procs :
    /\ p # q
    /\ conn[p].op = "hook" /\ conn[p].pc = "closed" /\ conn[p].result = "ok"
    /\ conn[q].pc \in {"log", "update_tasks"} /\ conn[q].started <= now
    /\ git_activity # <<>>
    /\ git_activity[Len(git_activity)].message = Join(<<Clause(1, WDONE)>>)
    /\ tasks[1].status = "completed"

\* C22: every task's priority is low, medium or high, whichever entry point
\* created the task
C22_PriorityValues ==
  \A i \in 1..Len(tasks) : tasks[i].priority \in {LOW, MEDIUM, HIGH}

\* C23: a successful status change hands back to its caller the title of the
\* task and the status the task had before the change
C23_ReturnsPreviousStatus ==
  [][(last'.op = "update_task_status" /\ last'.result = "ok")
       => /\ \E k \in 1..Len(last'.out) : last'.out[k] = tasks[last'.task_id].title
          /\ \E k \in 1..Len(last'.out) : last'.out[k] = tasks[last'.task_id].status]_vars

\* a run of add_project whose get_git_info fails
GitInfoFails ==
  \E np \in StoreProjects : np[2] # NoPath /\ AddProjectGit(np[1], np[2], FALSE)

\* a run of the hook in a tracked repository whose git branch --show-current
\* fails
BranchReadFails ==
  \E msg \in HookMessages : HookMain("/repo/a", TRUE, HASHA, FALSE, msg)

\* C24: a failing git subprocess does not keep the write from happening:
\* add_project with a new name inserts the project when get_git_info fails,
\* and a hook run whose branch name cannot be read appends for every
\* directive on a task of the project one record with branch 'unknown' and
\* sets the status of the directive
C24_GitFailureAbsorbed ==
  [][/\ (GitInfoFails /\ ~NameTaken(projects, last'.ref))
         => /\ last'.result = "ok"
            /\ Len(projects') = Len(projects) + 1
            /\ projects'[Len(projects')].name = last'.ref
     /\ BranchReadFails
         => LET Ok == {k \in 1..Len(last'.out) : last'.out[k][3]}
            IN /\ Len(git_activity') = Len(git_activity) + Cardinality(Ok)
               /\ \A j \in (Len(git_activity) + 1)..Len(git_activity') :
                    git_activity'[j].branch_name = "unknown"
               /\ \A k \in Ok :
                    /\ \E j \in (Len(git_activity) + 1)..Len(git_activity') :
                         git_activity'[j].task_id = last'.out[k][1]
                    /\ (last'.out[k][2] \in {"completed", "in_progress", "blocked"}
                         => tasks'[last'.out[k][1]].status = last'.out[k][2])]_vars

\* a project with a path was added though its Git info could not be read,
\* and a directive was logged with branch 'unknown' and its status applied
C24_Witness ==
  /\ \E i \in 1..Len(projects) : projects[i].path # NoPath
  /\ last.op = "hook"
  /\ \E j \in 1..Len(git_activity) :
       /\ git_activity[j].branch_name = "unknown"
       /\ tasks[git_activity[j].task_id].status = "completed"

\* the place of an action in the order of the patterns
ActionRank(action) ==
  CASE action = "completed" -> 1
    [] action = "in_progress" -> 2
    [] action = "blocked" -> 3
    [] OTHER -> 4

AsciiRecase ==
  /\ message' # message
  /\ \A i \in 1..Len(message) :
       message'[i] # message[i] => (IsUpper(message[i]) \/ IsLower(message[i]))

\* C26 as stated: parse_commit_message gives the same directives for a
\* subject and for the subject with a letter in the other case, and the hook
\* stores the subject as it was typed
C26_CaseInsensitive ==
  [][/\ message' # message => updates' = updates
     /\ HookRan => \A j \in (Len(git_activity) + 1)..Len(git_activity') :
                     git_activity'[j].message = message]_vars

\* C26 amended: parse_commit_message gives the same directives for a
\* subject and for the subject with an ASCII letter in the other case, and
\* the hook stores the subject as it was typed
C26_CaseInsensitiveAscii ==
  [][/\ AsciiRecase => /\ updates' = updates
                        /\ updates' = parse_commit_message(message')
     /\ HookRan => \A j \in (Len(git_activity) + 1)..Len(git_activity') :
                     git_activity'[j].message = message]_vars

\* the subject "PT:1 Done", retyped from "pt:1 done", completed task 1 and
\* is in the log with its capitals
C26_Witness ==
  /\ last.op = "hook"
  /\ message \notin CaseMessages
  /\ Lower(message) \in CaseMessages
  /\ updates = <<<<1, "completed">>, <<1, "activity">>>>
  /\ tasks[1].status = "completed"
  /\ git_activity # <<>>
  /\ git_activity[1].message = message

\* C27: create_task_from_nl returns True exactly when the main task was
\* inserted
C27_TrueIffMainInserted ==
  last.op = "create_task_from_nl"
    => (last.result = "ok" <=> last.task_id # 0)

\* C28: under the status commands of the command line and runs of the hook a
\* task that has left pending never becomes pending again
C28_PendingOnlyInitial ==
  [][\A i \in 1..Len(tasks) :
       tasks[i].status # "pending" => tasks'[i].status # "pending"]_vars

\* a task that a commit had moved off pending was given another status by a
\* status command
C28_Witness ==
  /\ last.op = "update_task_status"
  /\ last.result = "ok"
  /\ tasks[last.task_id].status = "blocked"
  /\ \E j \in 1..Len(git_activity) : git_activity[j].task_id = last.task_id

\* C29: every record of git_activity has a task_id, which names an existing
\* task, and the project of that task is the project of the record
C29_RecordNamesTaskOfProject ==
  \A j \in 1..Len(git_activity) :
    /\ git_activity[j].task_id \in 1..Len(tasks)
    /\ tasks[git_activity[j].task_id].project_id = git_activity[j].project_id

\* a run logged a directive on a task of the project and rejected one on a
\* task that does not exist
C29_Witness ==
  /\ last.op = "hook"
  /\ git_activity # <<>>
  /\ \E k \in 1..Len(last.out) : ~last.out[k][3]
  /\ \E k \in 1..Len(last.out) : last.out[k][3]

\* C30: a hook run in the repository of project P leaves every task of
\* another project and every other project row as it was, changes of the
\* row of P nothing but updated_at, and appends records of P only; a run
\* whose repository is no tracked project leaves the store as it was
C30_HookFrame ==
  [][(last'.op = "hook" /\ now' = now) =>
       IF last'.project_id = 0
       THEN store' = store
       ELSE /\ Len(tasks') = Len(tasks)
            /\ Len(projects') = Len(projects)
            /\ \A i \in 1..Len(tasks) :
                 tasks[i].project_id # last'.project_id => tasks'[i] = tasks[i]
            /\ \A q \in 1..Len(projects) :
                 IF q = last'.project_id
                 THEN projects'[q] =
                        [projects[q] EXCEPT !.updated_at = projects'[q].updated_at]
                 ELSE projects'[q] = projects[q]
            /\ SubSeq(git_activity', 1, Len(git_activity)) = git_activity
            /\ \A j \in (Len(git_activity) + 1)..Len(git_activity') :
                 git_activity'[j].project_id = last'.project_id]_vars

\* a commit in the repository of project 1 with directives on task 1 and on
\* task 2 of project 2: task 1 is in progress and project 1 touched, task 2
\* and project 2 are as they were created
C30_Witness ==
  /\ last.op = "hook"
  /\ last.project_id = 1
  /\ \E k \in 1..Len(last.out) : last.out[k][1] = 2 /\ ~last.out[k][3]
  /\ tasks[1].status = "in_progress"
  /\ tasks[2] = NewTask(2, "cli task", MEDIUM, NULL, FALSE, 0)
  /\ projects[1].updated_at > projects[2].updated_at
====
